---------------------------- MODULE Spec2Model ----------------------------
(***************************************************************************)
(* Instruction builders of the token-metadata JS client                    *)
(* (clients/js-legacy/src/instruction.ts).                                  *)
(*                                                                         *)
(* Every builder is a pure function from typed arguments to a              *)
(* TransactionInstruction (programId, account list, data buffer).  The     *)
(* arguments are drawn by Init, one builder call is one action.            *)
(*                                                                         *)
(* Values:                                                                 *)
(*   - a byte buffer is a sequence of integers in 0..255;                  *)
(*   - a string is the sequence of its Unicode code points;                *)
(*   - a PublicKey is a record [id, len]; toBytes gives its len bytes      *)
(*     (a PublicKey of @solana/web3.js always has len = 32);               *)
(*   - an optional argument is [tag |-> "undefined"] (omitted),            *)
(*     [tag |-> "null"] or [tag |-> "some", v |-> value].                  *)
(***************************************************************************)
EXTENDS Integers, Sequences, FiniteSets, TLC

VARIABLES args, result

vars == <<args, result>>

-----------------------------------------------------------------------------
(* Optional values *)

Undefined == [tag |-> "undefined"]
Null == [tag |-> "null"]
Some(x) == [tag |-> "some", v |-> x]

\* JavaScript's a ?? b and the destructuring default `x = b`, for b = null
OrNull(opt) == IF opt.tag = "some" THEN opt ELSE Null

-----------------------------------------------------------------------------
(* Primitive encoders (@solana/codecs), as used by instruction.ts *)

PUBLIC_KEY_LENGTH == 32

RECURSIVE LittleEndian(_, _)
\* the n low bytes of v, least significant first
LittleEndian(v, n) ==
    IF n = 0 THEN <<>> ELSE <<v % 256>> \o LittleEndian(v \div 256, n - 1)

getU8Encoder(v) == LittleEndian(v, 1)
getU16Encoder(v) == LittleEndian(v, 2)
getU32Encoder(v) == LittleEndian(v, 4)
getU64Encoder(v) == LittleEndian(v, 8)

\* the number encoders throw on a value outside the type's range
U8InRange(v) == 0 <= v /\ v <= 255
U16InRange(v) == 0 <= v /\ v <= 65535
\* the model's integers stay below 2^31, so only the lower end can be missed
U64InRange(v) == 0 <= v

getBooleanEncoder(b) == <<IF b THEN 1 ELSE 0>>

\* UTF-8 bytes of one code point
Utf8OfCodePoint(c) ==
    IF c < 128 THEN <<c>>
    ELSE IF c < 2048 THEN <<192 + (c \div 64), 128 + (c % 64)>>
    ELSE IF c < 65536
         THEN <<224 + (c \div 4096), 128 + ((c \div 64) % 64), 128 + (c % 64)>>
    ELSE <<240 + (c \div 262144), 128 + ((c \div 4096) % 64),
           128 + ((c \div 64) % 64), 128 + (c % 64)>>

RECURSIVE getUtf8Encoder(_)
getUtf8Encoder(s) ==
    IF s = <<>> THEN <<>>
    ELSE Utf8OfCodePoint(Head(s)) \o getUtf8Encoder(Tail(s))

\* fixEncoderSize(encoder, n): the encoded bytes cut to n, zero-filled to n
fixEncoderSize(bytes, n) ==
    [i \in 1..n |-> IF i <= Len(bytes) THEN bytes[i] ELSE 0]

\* getOptionEncoder(item): flag byte 0, or flag byte 1 and the item's bytes
\* (item is the item encoder applied to opt.v, used only when opt is present)
getOptionEncoder(opt, item) ==
    IF opt.tag = "some" THEN <<1>> \o item ELSE <<0>>

RECURSIVE Flatten(_)
Flatten(ss) == IF ss = <<>> THEN <<>> ELSE Head(ss) \o Flatten(Tail(ss))

\* getArrayEncoder(item): u32 count, then the items' bytes
getArrayEncoder(encodedItems) ==
    getU32Encoder(Len(encodedItems)) \o Flatten(encodedItems)

-----------------------------------------------------------------------------
(* Encoders defined by instruction.ts *)

\* PublicKey.toBytes()
toBytes(publicKey) ==
    [i \in 1..publicKey.len |-> (publicKey.id * (i + 6)) % 256]

\* faulty variant: the discriminator written as size-prefixed bytes
getInstructionEncoder_Prefixed(discriminator, data) ==
    getU32Encoder(Len(discriminator)) \o discriminator \o data

getInstructionEncoder(discriminator, data) == discriminator \o data

getPublicKeyEncoder(publicKey) ==
    fixEncoderSize(toBytes(publicKey), PUBLIC_KEY_LENGTH)

\* faulty variant: the prefix counts characters, not UTF-8 bytes
getStringEncoder_CharCount(s) == getU32Encoder(Len(s)) \o getUtf8Encoder(s)

getStringEncoder(s) ==
    LET utf8 == getUtf8Encoder(s) IN getU32Encoder(Len(utf8)) \o utf8


-----------------------------------------------------------------------------
(* The Field collaborator (./field.js): getFieldConfig and getFieldCodec *)

StrName == <<110, 97, 109, 101>>
StrSymbol == <<115, 121, 109, 98, 111, 108>>
StrUri == <<117, 114, 105>>

\* a Field is an enum member [kind |-> "enum", v |-> 0..2] (Name, Symbol, Uri)
\* or a string [kind |-> "string", v |-> code points]
getFieldConfig(field) ==
    IF field.kind = "enum"
    THEN [__kind |-> <<"name", "symbol", "uri">>[field.v + 1], value |-> <<>>]
    ELSE IF field.v = StrName THEN [__kind |-> "name", value |-> <<>>]
    ELSE IF field.v = StrSymbol THEN [__kind |-> "symbol", value |-> <<>>]
    ELSE IF field.v = StrUri THEN [__kind |-> "uri", value |-> <<>>]
    ELSE [__kind |-> "key", value |-> <<field.v>>]

\* getDataEnumCodec(getFieldCodec()): the variant's index, then its payload
getFieldEncoder(layout) ==
    CASE layout.__kind = "name" -> getU8Encoder(0)
      [] layout.__kind = "symbol" -> getU8Encoder(1)
      [] layout.__kind = "uri" -> getU8Encoder(2)
      [] layout.__kind = "key" -> getU8Encoder(3) \o getStringEncoder(layout.value[1])

-----------------------------------------------------------------------------
(* Results *)

NotCalled == [status |-> "none"]
Thrown == [status |-> "error"]

TransactionInstruction(programId, keys, data) ==
    [status |-> "ok", programId |-> programId, keys |-> keys, data |-> data]

AccountMeta(isSigner, isWritable, pubkey) ==
    [isSigner |-> isSigner, isWritable |-> isWritable, pubkey |-> pubkey]

-----------------------------------------------------------------------------
(* createUpdateFieldInstruction *)

UpdateFieldDiscriminator == <<221, 233, 49, 45, 181, 202, 220, 200>>

UpdateFieldValue(a) == [field |-> getFieldConfig(a.field), value |-> a.value]

UpdateFieldStructEncoder(v) ==
    getFieldEncoder(v.field) \o getStringEncoder(v.value)

UpdateFieldKeys(a) ==
    << AccountMeta(FALSE, TRUE, a.metadata),
       AccountMeta(TRUE, FALSE, a.updateAuthority) >>

UpdateFieldInstruction(a) ==
    TransactionInstruction(a.programId, UpdateFieldKeys(a),
        getInstructionEncoder(UpdateFieldDiscriminator,
                              UpdateFieldStructEncoder(UpdateFieldValue(a))))

createUpdateFieldInstruction ==
    /\ args.op = "UpdateField"
    /\ result = NotCalled
    /\ result' = UpdateFieldInstruction(args)
    /\ UNCHANGED args

-----------------------------------------------------------------------------
(* createRemoveKeyInstruction *)

RemoveKeyDiscriminator == <<234, 18, 32, 56, 89, 141, 37, 181>>

RemoveKeyValue(a) == [idempotent |-> a.idempotent, key |-> a.key]

RemoveKeyStructEncoder(v) ==
    getBooleanEncoder(v.idempotent) \o getStringEncoder(v.key)

RemoveKeyKeys(a) ==
    << AccountMeta(FALSE, TRUE, a.metadata),
       AccountMeta(TRUE, FALSE, a.updateAuthority) >>

RemoveKeyInstruction(a) ==
    TransactionInstruction(a.programId, RemoveKeyKeys(a),
        getInstructionEncoder(RemoveKeyDiscriminator,
                              RemoveKeyStructEncoder(RemoveKeyValue(a))))

createRemoveKeyInstruction ==
    /\ args.op = "RemoveKey"
    /\ result = NotCalled
    /\ result' = RemoveKeyInstruction(args)
    /\ UNCHANGED args

-----------------------------------------------------------------------------
(* createUpdateAuthorityInstruction *)

UpdateAuthorityDiscriminator == <<215, 228, 166, 228, 84, 100, 86, 123>>

\* SystemProgram.programId: the all-zero key
SystemProgramId == [id |-> 0, len |-> PUBLIC_KEY_LENGTH]

\* newAuthority ?? SystemProgram.programId
UpdateAuthorityValue(a) ==
    [newAuthority |-> IF a.newAuthority.tag = "some" THEN a.newAuthority.v
                      ELSE SystemProgramId]

\* faulty variant: newAuthority written as an optional key
UpdateAuthorityStructEncoder_Optional(v) ==
    <<1>> \o getPublicKeyEncoder(v.newAuthority)

UpdateAuthorityStructEncoder(v) == getPublicKeyEncoder(v.newAuthority)

UpdateAuthorityKeys(a) ==
    << AccountMeta(FALSE, TRUE, a.metadata),
       AccountMeta(TRUE, FALSE, a.oldAuthority) >>

UpdateAuthorityInstruction(a) ==
    TransactionInstruction(a.programId, UpdateAuthorityKeys(a),
        getInstructionEncoder(UpdateAuthorityDiscriminator,
                              UpdateAuthorityStructEncoder(UpdateAuthorityValue(a))))

createUpdateAuthorityInstruction ==
    /\ args.op = "UpdateAuthority"
    /\ result = NotCalled
    /\ result' = UpdateAuthorityInstruction(args)
    /\ UNCHANGED args

-----------------------------------------------------------------------------
(* createEmitInstruction *)

EmitDiscriminator == <<250, 166, 180, 250, 13, 12, 184, 70>>

\* faulty variant: start || null and end || null, which drop a supplied 0
EmitValue_Falsy(a) ==
    [ start |-> IF a.start.tag = "some" /\ a.start.v # 0 THEN a.start ELSE Null,
      end |-> IF a.end.tag = "some" /\ a.end.v # 0 THEN a.end ELSE Null ]

\* { start: start ?? null, end: end ?? null }
EmitValue(a) == [start |-> OrNull(a.start), end |-> OrNull(a.end)]

EmitStructEncoder(v) ==
    getOptionEncoder(v.start, getU64Encoder(v.start.v))
        \o getOptionEncoder(v.end, getU64Encoder(v.end.v))

EmitEncodable(v) ==
    /\ v.start.tag = "some" => U64InRange(v.start.v)
    /\ v.end.tag = "some" => U64InRange(v.end.v)

EmitKeys(a) == << AccountMeta(FALSE, FALSE, a.metadata) >>

EmitInstruction(a) ==
    IF EmitEncodable(EmitValue(a))
    THEN TransactionInstruction(a.programId, EmitKeys(a),
             getInstructionEncoder(EmitDiscriminator, EmitStructEncoder(EmitValue(a))))
    ELSE Thrown

createEmitInstruction ==
    /\ args.op = "Emit"
    /\ result = NotCalled
    /\ result' = EmitInstruction(args)
    /\ UNCHANGED args

-----------------------------------------------------------------------------
(* createInitializeInstruction *)

InitializeDiscriminator == <<210, 225, 30, 162, 88, 184, 77, 141>>

\* the destructuring defaults: creators = [], sellerFeeBasisPoints = 0
CreatorsOrEmpty(a) == IF a.creators.tag = "some" THEN a.creators.v ELSE <<>>
SellerFeeOrZero(a) ==
    IF a.sellerFeeBasisPoints.tag = "some" THEN a.sellerFeeBasisPoints.v ELSE 0

\* faulty variant: every creator signs, the filter is missing
CreatorSigners_NoFilter(creators) ==
    [i \in 1..Len(creators) |-> AccountMeta(TRUE, FALSE, creators[i].address)]

\* creators.filter(c => c.verified).map(creator => signer entry)
CreatorSigners(creators) ==
    LET verified == SelectSeq(creators, LAMBDA c : c.verified)
    IN [i \in 1..Len(verified) |-> AccountMeta(TRUE, FALSE, verified[i].address)]

\* collection && collection.verified ? [signer entry] : []
CollectionSigners(collection) ==
    IF collection.tag = "some" /\ collection.v.verified
    THEN << AccountMeta(TRUE, FALSE, collection.v.key) >>
    ELSE <<>>

\* faulty variant: the collection signer is listed before the creators
InitializeKeys_CollectionFirst(a) ==
    << AccountMeta(FALSE, TRUE, a.metadata),
       AccountMeta(FALSE, FALSE, a.updateAuthority),
       AccountMeta(FALSE, FALSE, a.mint),
       AccountMeta(TRUE, FALSE, a.mintAuthority) >>
    \o CollectionSigners(OrNull(a.collection))
    \o CreatorSigners(CreatorsOrEmpty(a))

InitializeKeys(a) ==
    << AccountMeta(FALSE, TRUE, a.metadata),
       AccountMeta(FALSE, FALSE, a.updateAuthority),
       AccountMeta(FALSE, FALSE, a.mint),
       AccountMeta(TRUE, FALSE, a.mintAuthority) >>
    \o CreatorSigners(CreatorsOrEmpty(a))
    \o CollectionSigners(OrNull(a.collection))

\* faulty variant: an empty list is passed on as a present list
CreatorsOrNull_Always(creators) == Some(creators)

\* creators.length > 0 ? creators : null
CreatorsOrNull(creators) == IF Len(creators) > 0 THEN Some(creators) ELSE Null

\* faulty variant: one presence decision for the three optional fields
InitializeValue_AllOrNothing(a) ==
    LET present == Len(CreatorsOrEmpty(a)) > 0
    IN [ name |-> a.name,
         symbol |-> a.symbol,
         uri |-> a.uri,
         seller_fee_basis_points |-> SellerFeeOrZero(a),
         creators |-> CreatorsOrNull(CreatorsOrEmpty(a)),
         collection |-> IF present THEN OrNull(a.collection) ELSE Null,
         uses |-> IF present THEN OrNull(a.uses) ELSE Null ]

\* the object handed to encode()
InitializeValue(a) ==
    [ name |-> a.name,
      symbol |-> a.symbol,
      uri |-> a.uri,
      seller_fee_basis_points |-> SellerFeeOrZero(a),
      creators |-> CreatorsOrNull(CreatorsOrEmpty(a)),
      collection |-> OrNull(a.collection),
      uses |-> OrNull(a.uses) ]

\* faulty variant: share and verified written in the wrong order
CreatorEncoder_ShareFirst(c) ==
    getPublicKeyEncoder(c.address) \o getU8Encoder(c.share)
        \o getBooleanEncoder(c.verified)

CreatorEncoder(c) ==
    getPublicKeyEncoder(c.address) \o getBooleanEncoder(c.verified)
        \o getU8Encoder(c.share)

CreatorsEncoder(creators) ==
    getArrayEncoder([i \in 1..Len(creators) |-> CreatorEncoder(creators[i])])

CollectionEncoder(c) ==
    getPublicKeyEncoder(c.key) \o getBooleanEncoder(c.verified)

UsesEncoder(u) ==
    getU8Encoder(u.use_method) \o getU64Encoder(u.remaining)
        \o getU64Encoder(u.total)

InitializeStructEncoder(v) ==
    getStringEncoder(v.name)
        \o getStringEncoder(v.symbol)
        \o getStringEncoder(v.uri)
        \o getU16Encoder(v.seller_fee_basis_points)
        \o getOptionEncoder(v.creators, CreatorsEncoder(v.creators.v))
        \o getOptionEncoder(v.collection, CollectionEncoder(v.collection.v))
        \o getOptionEncoder(v.uses, UsesEncoder(v.uses.v))

\* no number encoder of the layout throws
InitializeEncodable(v) ==
    /\ U16InRange(v.seller_fee_basis_points)
    /\ v.creators.tag = "some" =>
          \A i \in 1..Len(v.creators.v) : U8InRange(v.creators.v[i].share)
    /\ v.uses.tag = "some" =>
          /\ U8InRange(v.uses.v.use_method)
          /\ U64InRange(v.uses.v.remaining)
          /\ U64InRange(v.uses.v.total)

InitializeInstruction(a) ==
    IF InitializeEncodable(InitializeValue(a))
    THEN TransactionInstruction(a.programId, InitializeKeys(a),
             getInstructionEncoder(InitializeDiscriminator,
                                   InitializeStructEncoder(InitializeValue(a))))
    ELSE Thrown

createInitializeInstruction ==
    /\ args.op = "Initialize"
    /\ result = NotCalled
    /\ result' = InitializeInstruction(args)
    /\ UNCHANGED args

-----------------------------------------------------------------------------
(* The arguments a caller passes *)

MaxCreators == 2

SeqsUpTo(S, n) == UNION { [1..k -> S] : k \in 0..n }

\* ids of the keys of the model; id 0 is the System Program
KeyIds == {0, 1}
PublicKeys == [id : KeyIds, len : {PUBLIC_KEY_LENGTH}]
\* objects whose toBytes() gives 31, 32 or 33 bytes
UntypedKeys == [id : {1}, len : {PUBLIC_KEY_LENGTH - 1, PUBLIC_KEY_LENGTH, PUBLIC_KEY_LENGTH + 1}]
ProgramIds == {[id |-> 9, len |-> PUBLIC_KEY_LENGTH]}

StrMyKey == <<109, 121, 45, 107, 101, 121>>
\* "", "my-key", "name", e-acute, "a" + euro sign, an emoji
Strings == { <<>>, StrMyKey, StrName, <<233>>, <<97, 8364>>, <<128512>> }
\* (name, symbol, uri)
Titles == { <<StrMyKey, <<97, 8364>>, <<>> >>, << <<233>>, <<>>, StrUri >> }

BigInts == {-1, 0, 5, 258, 2147483647}
Shares == {60}
SellerFees == {500, 65536}
UsesSamples == { [use_method |-> 1, remaining |-> 5, total |-> 258],
                 [use_method |-> 256, remaining |-> 0, total |-> 0] }
Fields == [kind : {"enum"}, v : 0..2]
             \cup [kind : {"string"}, v : {StrName, StrUri, StrMyKey, <<233>>}]

Optional(S) == {Undefined} \cup { Some(x) : x \in S }
Nullable(S) == {Null} \cup { Some(x) : x \in S }

Creators(K) == [address : K, verified : BOOLEAN, share : Shares]
Collections(K) == [key : K, verified : BOOLEAN]

InitializeArgs(K, AK) ==
    { [ op |-> "Initialize", programId |-> p, metadata |-> ks[1],
        updateAuthority |-> ks[2], mint |-> ks[3], mintAuthority |-> ks[4],
        name |-> t[1], symbol |-> t[2], uri |-> t[3],
        creators |-> c, sellerFeeBasisPoints |-> f, collection |-> col, uses |-> u ] :
        p \in ProgramIds, ks \in [1..4 -> AK], t \in Titles,
        c \in Optional(SeqsUpTo(Creators(K), MaxCreators)),
        f \in Optional(SellerFees),
        col \in {Undefined} \cup Nullable(Collections(K)),
        u \in {Undefined} \cup Nullable(UsesSamples) }

UpdateFieldArgs ==
    [ op : {"UpdateField"}, programId : ProgramIds, metadata : PublicKeys,
      updateAuthority : PublicKeys, field : Fields, value : Strings ]

RemoveKeyArgs ==
    [ op : {"RemoveKey"}, programId : ProgramIds, metadata : PublicKeys,
      updateAuthority : PublicKeys, key : Strings, idempotent : BOOLEAN ]

UpdateAuthorityArgs(K) ==
    [ op : {"UpdateAuthority"}, programId : ProgramIds, metadata : PublicKeys,
      oldAuthority : PublicKeys, newAuthority : Nullable(K) ]

EmitArgs ==
    [ op : {"Emit"}, programId : ProgramIds, metadata : PublicKeys,
      start : Optional(BigInts), end : Optional(BigInts) ]

-----------------------------------------------------------------------------
(* Specifications *)

\* callers that pass PublicKey objects, as the argument types require
Init ==
    /\ args \in InitializeArgs(PublicKeys, PublicKeys) \cup UpdateFieldArgs
                    \cup RemoveKeyArgs \cup UpdateAuthorityArgs(PublicKeys) \cup EmitArgs
    /\ result = NotCalled

\* callers that pass, where a key is encoded, any object with a toBytes()
InitUntyped ==
    /\ args \in InitializeArgs(UntypedKeys, {SystemProgramId}) \cup UpdateFieldArgs
                    \cup RemoveKeyArgs \cup UpdateAuthorityArgs(UntypedKeys) \cup EmitArgs
    /\ result = NotCalled

Next ==
    \/ createInitializeInstruction
    \/ createUpdateFieldInstruction
    \/ createRemoveKeyInstruction
    \/ createUpdateAuthorityInstruction
    \/ createEmitInstruction

Spec == Init /\ [][Next]_vars

SpecUntyped == InitUntyped /\ [][Next]_vars

-----------------------------------------------------------------------------
(* The inverse layouts: readers of a data buffer.  A reader takes the       *)
(* buffer b and the index o of the next byte and gives [ok, v, o]: whether  *)
(* it could read, the value read and the index after it.  Keys are read as  *)
(* their 32 bytes.                                                          *)

Failed == [ok |-> FALSE]
Read(v, o) == [ok |-> TRUE, v |-> v, o |-> o]

\* the little-endian value of n bytes, -1 for a value of 2^31 or more
ReadUInt(b, o, n) ==
    IF o + n - 1 > Len(b) THEN Failed
    ELSE LET low == [i \in 1..n |-> IF i <= 4 THEN b[o + i - 1] ELSE 0]
             big == (n >= 4 /\ b[o + 3] >= 128) \/ \E i \in 5..n : b[o + i - 1] # 0
             val == IF n = 1 THEN low[1]
                    ELSE IF n = 2 THEN low[1] + 256 * low[2]
                    ELSE low[1] + 256 * low[2] + 65536 * low[3] + 16777216 * low[4]
         IN Read(IF big THEN -1 ELSE val, o + n)

ReadBool(b, o) ==
    IF o > Len(b) \/ b[o] \notin {0, 1} THEN Failed ELSE Read(b[o] = 1, o + 1)

ReadBytes(b, o, n) ==
    IF o + n - 1 > Len(b) THEN Failed ELSE Read(SubSeq(b, o, o + n - 1), o + n)

IsCont(x) == 128 <= x /\ x < 192

RECURSIVE Utf8Decode(_)
\* the code points of well-formed UTF-8 bytes; <<-1>> marks ill-formed bytes
Utf8Decode(u) ==
    IF u = <<>> THEN <<>>
    ELSE LET h == u[1]
             n == IF h < 128 THEN 1 ELSE IF h < 192 THEN 0 ELSE IF h < 224 THEN 2
                  ELSE IF h < 240 THEN 3 ELSE IF h < 248 THEN 4 ELSE 0
         IN IF n = 0 \/ n > Len(u) \/ \E i \in 2..n : ~IsCont(u[i]) THEN <<-1>>
            ELSE LET c == CASE n = 1 -> h
                            [] n = 2 -> (h - 192) * 64 + (u[2] - 128)
                            [] n = 3 -> (h - 224) * 4096 + (u[2] - 128) * 64 + (u[3] - 128)
                            [] n = 4 -> (h - 240) * 262144 + (u[2] - 128) * 4096
                                           + (u[3] - 128) * 64 + (u[4] - 128)
                 IN <<c>> \o Utf8Decode(SubSeq(u, n + 1, Len(u)))

ReadString(b, o) ==
    LET n == ReadUInt(b, o, 4)
    IN IF ~n.ok THEN Failed
       ELSE IF n.v < 0 \/ n.o + n.v - 1 > Len(b) THEN Failed
       ELSE Read(Utf8Decode(SubSeq(b, n.o, n.o + n.v - 1)), n.o + n.v)

\* item is what the item's reader gives at o + 1
ReadOption(b, o, item) ==
    IF o > Len(b) \/ b[o] \notin {0, 1} THEN Failed
    ELSE IF b[o] = 0 THEN Read(Null, o + 1)
    ELSE IF item.ok THEN Read(Some(item.v), item.o) ELSE Failed

ReadCreator(b, o) ==
    LET address == ReadBytes(b, o, 32)
        verified == ReadBool(b, address.o)
        share == ReadUInt(b, verified.o, 1)
    IN IF ~address.ok THEN Failed
       ELSE IF ~verified.ok THEN Failed
       ELSE IF ~share.ok THEN Failed
       ELSE Read([address |-> address.v, verified |-> verified.v, share |-> share.v],
                 share.o)

RECURSIVE ReadCreatorItems(_, _, _)
ReadCreatorItems(b, o, n) ==
    IF n = 0 THEN Read(<<>>, o)
    ELSE LET c == ReadCreator(b, o)
         IN IF ~c.ok THEN Failed
            ELSE LET rest == ReadCreatorItems(b, c.o, n - 1)
                 IN IF rest.ok THEN Read(<<c.v>> \o rest.v, rest.o) ELSE Failed

ReadCreators(b, o) ==
    LET n == ReadUInt(b, o, 4)
    IN IF ~n.ok THEN Failed
       ELSE IF n.v < 0 \/ n.v > Len(b) THEN Failed
       ELSE ReadCreatorItems(b, n.o, n.v)

ReadCollection(b, o) ==
    LET key == ReadBytes(b, o, 32)
        verified == ReadBool(b, key.o)
    IN IF ~key.ok THEN Failed
       ELSE IF ~verified.ok THEN Failed
       ELSE Read([key |-> key.v, verified |-> verified.v], verified.o)

ReadUses(b, o) ==
    LET use_method == ReadUInt(b, o, 1)
        remaining == ReadUInt(b, use_method.o, 8)
        total == ReadUInt(b, remaining.o, 8)
    IN IF ~use_method.ok THEN Failed
       ELSE IF ~remaining.ok THEN Failed
       ELSE IF ~total.ok THEN Failed
       ELSE Read([use_method |-> use_method.v, remaining |-> remaining.v,
                  total |-> total.v], total.o)

ReadU64(b, o) == ReadUInt(b, o, 8)

\* the Initialize layout; `at` keeps where each optional field starts
ReadInitialize(b, o) ==
    LET name == ReadString(b, o)
        symbol == ReadString(b, name.o)
        uri == ReadString(b, symbol.o)
        fee == ReadUInt(b, uri.o, 2)
        creators == ReadOption(b, fee.o, ReadCreators(b, fee.o + 1))
        collection == ReadOption(b, creators.o, ReadCollection(b, creators.o + 1))
        uses == ReadOption(b, collection.o, ReadUses(b, collection.o + 1))
    IN IF ~name.ok THEN Failed
       ELSE IF ~symbol.ok THEN Failed
       ELSE IF ~uri.ok THEN Failed
       ELSE IF ~fee.ok THEN Failed
       ELSE IF ~creators.ok THEN Failed
       ELSE IF ~collection.ok THEN Failed
       ELSE IF ~uses.ok THEN Failed
       ELSE [ ok |-> TRUE, o |-> uses.o,
              v |-> [ name |-> name.v, symbol |-> symbol.v, uri |-> uri.v,
                      seller_fee_basis_points |-> fee.v, creators |-> creators.v,
                      collection |-> collection.v, uses |-> uses.v ],
              at |-> [ creators |-> fee.o, collection |-> creators.o,
                       uses |-> collection.o ] ]

ReadField(b, o) ==
    LET tag == ReadUInt(b, o, 1)
        key == ReadString(b, tag.o)
    IN IF ~tag.ok THEN Failed
       ELSE IF tag.v = 0 THEN Read([__kind |-> "name", value |-> <<>>], tag.o)
       ELSE IF tag.v = 1 THEN Read([__kind |-> "symbol", value |-> <<>>], tag.o)
       ELSE IF tag.v = 2 THEN Read([__kind |-> "uri", value |-> <<>>], tag.o)
       ELSE IF tag.v = 3 /\ key.ok THEN Read([__kind |-> "key", value |-> <<key.v>>], key.o)
       ELSE Failed

ReadUpdateField(b, o) ==
    LET field == ReadField(b, o)
        value == ReadString(b, field.o)
    IN IF ~field.ok THEN Failed
       ELSE IF ~value.ok THEN Failed
       ELSE Read([field |-> field.v, value |-> value.v], value.o)

ReadRemoveKey(b, o) ==
    LET idempotent == ReadBool(b, o)
        key == ReadString(b, idempotent.o)
    IN IF ~idempotent.ok THEN Failed
       ELSE IF ~key.ok THEN Failed
       ELSE Read([idempotent |-> idempotent.v, key |-> key.v], key.o)

ReadUpdateAuthority(b, o) ==
    LET key == ReadBytes(b, o, 32)
    IN IF ~key.ok THEN Failed ELSE Read([newAuthority |-> key.v], key.o)

ReadEmit(b, o) ==
    LET start == ReadOption(b, o, ReadU64(b, o + 1))
        end == ReadOption(b, start.o, ReadU64(b, start.o + 1))
    IN IF ~start.ok THEN Failed
       ELSE IF ~end.ok THEN Failed
       ELSE Read([start |-> start.v, end |-> end.v], end.o)

\* a reader read the whole buffer after the discriminator
Whole(r, b) == r.ok /\ r.o = Len(b) + 1

Called(op) == args.op = op /\ result.status = "ok"

-----------------------------------------------------------------------------
(* Properties *)

Data == result.data
Payload == SubSeq(result.data, 9, Len(result.data))
ZeroKey == [i \in 1..32 |-> 0]

\* a creator list as the layout reads it back
AsRead(cs) ==
    [i \in 1..Len(cs) |-> [address |-> toBytes(cs[i].address),
                           verified |-> cs[i].verified, share |-> cs[i].share]]
AsReadCollection(c) == [key |-> toBytes(c.key), verified |-> c.verified]

\* an optional argument as passed: a value, or nothing
Given(opt) == IF opt.tag = "some" THEN opt ELSE Null

\* The round trip of every builder, for the creators and the newAuthority
\* that the Initialize and UpdateAuthority payloads are expected to read as.
RoundTrip(creatorsRead, authorityRead) ==
    /\ Called("Initialize") =>
          LET r == ReadInitialize(Data, 9)
          IN /\ Whole(r, Data)
             /\ r.v.name = args.name
             /\ r.v.symbol = args.symbol
             /\ r.v.uri = args.uri
             /\ r.v.seller_fee_basis_points =
                   (IF args.sellerFeeBasisPoints.tag = "some"
                    THEN args.sellerFeeBasisPoints.v ELSE 0)
             /\ r.v.creators = creatorsRead
             /\ r.v.collection = (IF args.collection.tag = "some"
                                 THEN Some(AsReadCollection(args.collection.v)) ELSE Null)
             /\ r.v.uses = Given(args.uses)
    /\ Called("UpdateField") =>
          LET r == ReadUpdateField(Data, 9)
          IN /\ Whole(r, Data)
             /\ r.v.field = getFieldConfig(args.field)
             /\ r.v.value = args.value
    /\ Called("RemoveKey") =>
          LET r == ReadRemoveKey(Data, 9)
          IN /\ Whole(r, Data)
             /\ r.v.idempotent = args.idempotent
             /\ r.v.key = args.key
    /\ Called("UpdateAuthority") =>
          LET r == ReadUpdateAuthority(Data, 9)
          IN /\ Whole(r, Data)
             /\ Some(r.v.newAuthority) = authorityRead
    /\ Called("Emit") =>
          LET r == ReadEmit(Data, 9)
          IN /\ Whole(r, Data)
             /\ r.v.start = Given(args.start)
             /\ r.v.end = Given(args.end)

\* C1 as stated: reading the data buffer back with the inverse layout gives
\* exactly the values the caller passed, creators = [] read back as a present
\* empty list and newAuthority = null read back as null.
C1_RoundTripAsPassed ==
    RoundTrip(IF args.op = "Initialize" /\ args.creators.tag = "some"
              THEN Some(AsRead(args.creators.v)) ELSE Null,
              IF args.op = "UpdateAuthority" /\ args.newAuthority.tag = "some"
              THEN Some(toBytes(args.newAuthority.v)) ELSE Null)

\* C1 amended: reading the data buffer back with the inverse layout gives the
\* values the caller passed (an omitted optional as absent, an omitted
\* sellerFeeBasisPoints as 0, field as its getFieldConfig layout), except that
\* creators = [] reads back as absent and newAuthority = null reads back as
\* the System Program key.
C1_RoundTrip ==
    RoundTrip(IF args.op = "Initialize" /\ args.creators.tag = "some"
                    /\ Len(args.creators.v) > 0
              THEN Some(AsRead(args.creators.v)) ELSE Null,
              IF args.op = "UpdateAuthority" /\ args.newAuthority.tag = "some"
              THEN Some(toBytes(args.newAuthority.v)) ELSE Some(ZeroKey))

\* Initialize succeeded with creators = [], which reads back as absent
C1_Witness ==
    /\ Called("Initialize")
    /\ args.creators.tag = "some"
    /\ Len(args.creators.v) = 0
    /\ ReadInitialize(Data, 9).v.creators = Null

KeyPubkeys == { result.keys[i].pubkey : i \in 1..Len(result.keys) }

UnverifiedKeys(a) ==
    LET cs == CreatorsOrEmpty(a)
    IN { cs[i].address : i \in { j \in 1..Len(cs) : ~cs[j].verified } }
          \cup (IF a.collection.tag = "some" /\ ~a.collection.v.verified
                THEN {a.collection.v.key} ELSE {})

VerifiedKeys(a) ==
    LET cs == CreatorsOrEmpty(a)
    IN { cs[i].address : i \in { j \in 1..Len(cs) : cs[j].verified } }
          \cup (IF a.collection.tag = "some" /\ a.collection.v.verified
                THEN {a.collection.v.key} ELSE {})

NumVerified(a) ==
    LET cs == CreatorsOrEmpty(a)
    IN Cardinality({ j \in 1..Len(cs) : cs[j].verified })
          + (IF a.collection.tag = "some" /\ a.collection.v.verified THEN 1 ELSE 0)

\* C2 as stated: the address of an unverified creator, and the key of an
\* unverified collection, is the pubkey of no entry of keys, whatever the other
\* arguments are.
C2_UnverifiedNeverInKeys ==
    Called("Initialize") => UnverifiedKeys(args) \cap KeyPubkeys = {}

\* C2 amended: an unverified creator or collection adds no entry to keys: keys
\* has 4 entries plus one per verified creator and verified collection, and
\* the address of an unverified creator or collection is the pubkey of an
\* entry only when metadata, updateAuthority, mint, mintAuthority, a verified
\* creator or a verified collection has that same key.
C2_UnverifiedAddNoEntry ==
    Called("Initialize") =>
        /\ Len(result.keys) = 4 + NumVerified(args)
        /\ \A k \in UnverifiedKeys(args) \cap KeyPubkeys :
              k \in {args.metadata, args.updateAuthority, args.mint, args.mintAuthority}
                       \cup VerifiedKeys(args)

\* an unverified creator whose address is in no entry of keys
C2_Witness ==
    /\ Called("Initialize")
    /\ args.creators.tag = "some"
    /\ \E i \in 1..Len(args.creators.v) :
          /\ ~args.creators.v[i].verified
          /\ args.creators.v[i].address \notin KeyPubkeys

RECURSIVE VerifiedInOrder(_)
VerifiedInOrder(cs) ==
    IF cs = <<>> THEN <<>>
    ELSE (IF Head(cs).verified THEN <<Head(cs).address>> ELSE <<>>)
            \o VerifiedInOrder(Tail(cs))

ExpectedKeys(a) ==
    LET signers == VerifiedInOrder(CreatorsOrEmpty(a))
    IN << [pubkey |-> a.metadata, isSigner |-> FALSE, isWritable |-> TRUE],
          [pubkey |-> a.updateAuthority, isSigner |-> FALSE, isWritable |-> FALSE],
          [pubkey |-> a.mint, isSigner |-> FALSE, isWritable |-> FALSE],
          [pubkey |-> a.mintAuthority, isSigner |-> TRUE, isWritable |-> FALSE] >>
       \o [i \in 1..Len(signers) |->
              [pubkey |-> signers[i], isSigner |-> TRUE, isWritable |-> FALSE]]
       \o (IF a.collection.tag = "some" /\ a.collection.v.verified
           THEN << [pubkey |-> a.collection.v.key, isSigner |-> TRUE,
                    isWritable |-> FALSE] >>
           ELSE <<>>)

\* C3: the account list of Initialize is metadata (writable), updateAuthority,
\* mint, mintAuthority (signer), then a read-only signer per verified creator
\* in the creators' order, then a read-only signer for a verified collection;
\* its length is 4 + verified creators + (1 if a verified collection).
C3_InitializeKeys ==
    Called("Initialize") =>
        /\ result.keys = ExpectedKeys(args)
        /\ Len(result.keys) = 4 + NumVerified(args)

\* two creators, the first unverified, the second verified, and a verified
\* collection
C3_Witness ==
    /\ Called("Initialize")
    /\ args.creators.tag = "some"
    /\ Len(args.creators.v) = 2
    /\ ~args.creators.v[1].verified
    /\ args.creators.v[2].verified
    /\ args.collection.tag = "some"
    /\ args.collection.v.verified
    /\ Len(result.keys) = 6

\* C4: Initialize with creators = [] gives the data of the same call with
\* creators omitted, the creators field being the single flag byte 0; and the
\* creators field is present exactly when the list is not empty.
C4_EmptyCreatorsAbsent ==
    Called("Initialize") =>
        LET r == ReadInitialize(Data, 9)
        IN /\ r.ok
           /\ (r.v.creators.tag = "some") <=>
                 (args.creators.tag = "some" /\ Len(args.creators.v) > 0)
           /\ (args.creators.tag = "some" /\ Len(args.creators.v) = 0) =>
                 /\ Data = InitializeInstruction([args EXCEPT !.creators = Undefined]).data
                 /\ Data[r.at.creators] = 0
                 /\ r.at.collection = r.at.creators + 1

C4_Witness ==
    /\ Called("Initialize")
    /\ args.creators.tag = "some"
    /\ Len(args.creators.v) = 0
    /\ Data[ReadInitialize(Data, 9).at.creators] = 0

\* C5: every UpdateAuthority call gives 40 bytes of data: the discriminator,
\* then the 32 bytes of newAuthority, or of the System Program id (all zero)
\* when newAuthority is null, with no presence flag.
C5_UpdateAuthorityData ==
    (args.op = "UpdateAuthority" /\ result # NotCalled) =>
        /\ result.status = "ok"
        /\ Len(Data) = 40
        /\ SubSeq(Data, 1, 8) = <<215, 228, 166, 228, 84, 100, 86, 123>>
        /\ SubSeq(Data, 9, 40) = (IF args.newAuthority.tag = "some"
                                  THEN toBytes(args.newAuthority.v) ELSE ZeroKey)

C5_Witness ==
    /\ Called("UpdateAuthority")
    /\ args.newAuthority.tag = "null"
    /\ SubSeq(Data, 9, 40) = ZeroKey

\* the call encodes a key whose toBytes() is not 32 bytes long
EncodesMalformedKey(a) ==
    \/ /\ a.op = "UpdateAuthority"
       /\ a.newAuthority.tag = "some"
       /\ a.newAuthority.v.len # 32
    \/ /\ a.op = "Initialize"
       /\ \/ /\ a.creators.tag = "some"
             /\ \E i \in 1..Len(a.creators.v) : a.creators.v[i].address.len # 32
          \/ /\ a.collection.tag = "some"
             /\ a.collection.v.key.len # 32

\* C6: a builder that encodes a key whose byte representation is not 32 bytes
\* long fails and returns no instruction.
C6_MalformedKeyFails ==
    (result # NotCalled /\ EncodesMalformedKey(args)) => result.status = "error"

Discriminators ==
    [ Initialize |-> <<210, 225, 30, 162, 88, 184, 77, 141>>,
      UpdateField |-> <<221, 233, 49, 45, 181, 202, 220, 200>>,
      RemoveKey |-> <<234, 18, 32, 56, 89, 141, 37, 181>>,
      UpdateAuthority |-> <<215, 228, 166, 228, 84, 100, 86, 123>>,
      Emit |-> <<250, 166, 180, 250, 13, 12, 184, 70>> ]

StructAtOffset8 ==
    CASE args.op = "Initialize" -> Whole(ReadInitialize(Data, 9), Data)
      [] args.op = "UpdateField" -> Whole(ReadUpdateField(Data, 9), Data)
      [] args.op = "RemoveKey" -> Whole(ReadRemoveKey(Data, 9), Data)
      [] args.op = "UpdateAuthority" -> Whole(ReadUpdateAuthority(Data, 9), Data)
      [] args.op = "Emit" -> Whole(ReadEmit(Data, 9), Data)

\* C7: the first 8 bytes of the data of every builder are its discriminator,
\* and the struct starts right after them, at byte offset 8.
C7_Discriminator ==
    result.status = "ok" =>
        /\ Len(Data) >= 8
        /\ SubSeq(Data, 1, 8) = Discriminators[args.op]
        /\ StructAtOffset8

C7_Witness ==
    /\ Called("UpdateField")
    /\ args.field.kind = "string"
    /\ SubSeq(Data, 1, 8) = <<221, 233, 49, 45, 181, 202, 220, 200>>

\* the 8 little-endian bytes of v, for 0 <= v < 2^31
U64Bytes(v) ==
    <<v % 256, (v \div 256) % 256, (v \div 65536) % 256, (v \div 16777216) % 256,
      0, 0, 0, 0>>
EncOptionalU64(opt) == IF opt.tag = "some" THEN <<1>> \o U64Bytes(opt.v) ELSE <<0>>
IsU64(opt) == opt.tag = "some" => opt.v >= 0

\* C8: for start and end absent or unsigned, the Emit data after the
\* discriminator is enc(start) ++ enc(end), enc(absent) = [0] and
\* enc(v) = [1] ++ the 8 little-endian bytes of v, a supplied 0 being present;
\* start = 5 with end omitted gives [1, 5,0,0,0,0,0,0,0, 0].
C8_EmitData ==
    (args.op = "Emit" /\ result # NotCalled /\ IsU64(args.start) /\ IsU64(args.end)) =>
        /\ result.status = "ok"
        /\ Payload = EncOptionalU64(args.start) \o EncOptionalU64(args.end)
        /\ (args.start.tag = "some" /\ args.start.v = 5 /\ args.end.tag = "undefined") =>
              Payload = <<1, 5, 0, 0, 0, 0, 0, 0, 0, 0>>

\* start = 0 supplied, end omitted
C8_Witness ==
    /\ Called("Emit")
    /\ args.start.tag = "some"
    /\ args.start.v = 0
    /\ args.end.tag = "undefined"
    /\ Payload = <<1, 0, 0, 0, 0, 0, 0, 0, 0, 0>>

\* the bytes of each optional field of Initialize, from its own argument alone
CreatorsBytes(creators) ==
    IF creators.tag = "some" /\ Len(creators.v) > 0
    THEN <<1>> \o CreatorsEncoder(creators.v) ELSE <<0>>
CollectionBytes(collection) ==
    IF collection.tag = "some" THEN <<1>> \o CollectionEncoder(collection.v) ELSE <<0>>
UsesBytes(uses) == IF uses.tag = "some" THEN <<1>> \o UsesEncoder(uses.v) ELSE <<0>>

\* C9: the Initialize data is the discriminator, then name, symbol, uri,
\* seller_fee_basis_points (u16, 0 when omitted), creators, collection, uses in
\* this order, the bytes of each of the three optional fields being decided by
\* its own argument alone.
C9_InitializeFields ==
    Called("Initialize") =>
        LET r == ReadInitialize(Data, 9)
            fee == IF args.sellerFeeBasisPoints.tag = "some"
                   THEN args.sellerFeeBasisPoints.v ELSE 0
        IN /\ Whole(r, Data)
           /\ SubSeq(Data, 9, r.at.creators - 1) =
                 getStringEncoder(args.name) \o getStringEncoder(args.symbol)
                    \o getStringEncoder(args.uri) \o <<fee % 256, fee \div 256>>
           /\ SubSeq(Data, r.at.creators, r.at.collection - 1) = CreatorsBytes(args.creators)
           /\ SubSeq(Data, r.at.collection, r.at.uses - 1) = CollectionBytes(args.collection)
           /\ SubSeq(Data, r.at.uses, Len(Data)) = UsesBytes(args.uses)

\* creators absent, collection present, uses absent
C9_Witness ==
    /\ Called("Initialize")
    /\ args.creators.tag = "undefined"
    /\ args.collection.tag = "some"
    /\ args.uses.tag = "null"
    /\ ReadInitialize(Data, 9).v.collection.tag = "some"

RECURSIVE Utf8Length(_)
Utf8Length(s) ==
    IF s = <<>> THEN 0
    ELSE (IF Head(s) < 128 THEN 1 ELSE IF Head(s) < 2048 THEN 2
          ELSE IF Head(s) < 65536 THEN 3 ELSE 4) + Utf8Length(Tail(s))

\* C10: the RemoveKey data is the discriminator, one byte for idempotent, the
\* key's UTF-8 byte length as a u32 little-endian, and the key's UTF-8 bytes:
\* 8 + 1 + 4 + len bytes; "my-key" with idempotent = true gives
\* [1, 6,0,0,0, 'm','y','-','k','e','y'] after the discriminator.
C10_RemoveKeyData ==
    (args.op = "RemoveKey" /\ result # NotCalled) =>
        LET n == Utf8Length(args.key)
        IN /\ result.status = "ok"
           /\ Len(Data) = 8 + 1 + 4 + n
           /\ SubSeq(Data, 1, 8) = <<234, 18, 32, 56, 89, 141, 37, 181>>
           /\ Data[9] = (IF args.idempotent THEN 1 ELSE 0)
           /\ SubSeq(Data, 10, 13) = <<n % 256, n \div 256, 0, 0>>
           /\ Utf8Decode(SubSeq(Data, 14, Len(Data))) = args.key
           /\ (args.key = StrMyKey /\ args.idempotent) =>
                 Payload = <<1, 6, 0, 0, 0, 109, 121, 45, 107, 101, 121>>

C10_Witness ==
    /\ Called("RemoveKey")
    /\ args.key = StrMyKey
    /\ args.idempotent
    /\ Payload = <<1, 6, 0, 0, 0, 109, 121, 45, 107, 101, 121>>

=============================================================================
